---- MODULE Spec2Model ----
(***************************************************************************)
(* Protocol engine of the LTC681X battery-monitor driver: chip-select      *)
(* sequencing, command framing, per-device register reads with PEC         *)
(* verification and the SDO line-polling type state (src/src/monitor.rs).  *)
(* Bytes are naturals in 0..255, u16 values naturals in 0..65535.  Rust    *)
(* slices are 0-based, the sequences below are 1-based.                    *)
(***************************************************************************)
EXTENDS Naturals, Sequences, FiniteSets

\* Number of devices in the daisy chain (const generic L of LTC681X).
L == 2

----------------------------------------------------------------------------
\* Bit operations on naturals, as the u8/u16 operators of the source.

RECURSIVE BitXor(_, _)
BitXor(a, b) ==
    IF a = 0 THEN b
    ELSE IF b = 0 THEN a
    ELSE ((a + b) % 2) + 2 * BitXor(a \div 2, b \div 2)

RECURSIVE BitOr(_, _)
BitOr(a, b) ==
    IF a = 0 THEN b
    ELSE IF b = 0 THEN a
    ELSE (IF a % 2 = 1 \/ b % 2 = 1 THEN 1 ELSE 0) + 2 * BitOr(a \div 2, b \div 2)

RECURSIVE BitAnd(_, _)
BitAnd(a, b) ==
    IF a = 0 \/ b = 0 THEN 0
    ELSE (IF a % 2 = 1 /\ b % 2 = 1 THEN 1 ELSE 0) + 2 * BitAnd(a \div 2, b \div 2)

RECURSIVE Pow2(_)
Pow2(n) == IF n = 0 THEN 1 ELSE 2 * Pow2(n - 1)

\* x << n and x >> n on a value of the given width in bits
Shl(x, n, width) == (x * Pow2(n)) % Pow2(width)
Shr(x, n) == x \div Pow2(n)

\* `x as u8`
AsU8(x) == x % 256

----------------------------------------------------------------------------
\* PEC15 checksum engine (crate::pec15, spec section 4.1).

\* 15-bit generator polynomial of the chip family, 0x4599
PEC15_POLY == 17817

\* initial value of the accumulator
PEC15_SEED == 16

RECURSIVE PecTableEntry(_, _)
PecTableEntry(r, bits) ==
    IF bits = 0 THEN r
    ELSE PecTableEntry(
            IF BitAnd(r, 16384) # 0
            THEN BitXor(Shl(r, 1, 16), PEC15_POLY)
            ELSE Shl(r, 1, 16),
            bits - 1)

\* the 256-entry lookup table, generated once
PecTable == [i \in 0..255 |-> PecTableEntry(Shl(i, 7, 16), 8)]

RECURSIVE PecFold(_, _, _)
PecFold(rem, bytes, i) ==
    IF i > Len(bytes) THEN rem
    ELSE LET addr == BitAnd(BitXor(Shr(rem, 7), bytes[i]), 255)
         IN  PecFold(BitXor(Shl(rem, 8, 16), PecTable[addr]), bytes, i + 1)

\* PEC15::calc(bytes) -> [hi, lo]
calc(bytes) ==
    LET rem == Shl(PecFold(PEC15_SEED, bytes, 1), 1, 16)
    IN  <<Shr(rem, 8), AsU8(rem)>>

----------------------------------------------------------------------------
\* Enumerations of the driver, by discriminant (`x as u16`).

ADCMode == [Fast |-> 1, Normal |-> 2, Filtered |-> 3, Other |-> 0]

CellSelection ==
    [All |-> 0, Group1 |-> 1, Group2 |-> 2, Group3 |-> 3,
     Group4 |-> 4, Group5 |-> 5, Group6 |-> 6]

\* fault: registers D and E numbered in alphabetical order
CellVoltageRegister_Sequential ==
    [RegisterA |-> 4, RegisterB |-> 6, RegisterC |-> 8,
     RegisterD |-> 9, RegisterE |-> 10, RegisterF |-> 11]

CellVoltageRegister ==
    [RegisterA |-> 4, RegisterB |-> 6, RegisterC |-> 8,
     RegisterD |-> 10, RegisterE |-> 9, RegisterF |-> 11]

\* The precomputed 4-byte commands of commands.rs
Commands ==
    [CMD_R_CELL_V_REG_A |-> <<0, 4, 7, 194>>,
     CMD_R_CELL_V_REG_B |-> <<0, 6, 154, 148>>,
     CMD_R_CELL_V_REG_C |-> <<0, 8, 94, 82>>,
     CMD_R_CELL_V_REG_D |-> <<0, 10, 195, 4>>,
     CMD_R_CELL_V_REG_E |-> <<0, 9, 213, 96>>,
     CMD_R_CELL_V_REG_F |-> <<0, 11, 72, 54>>,
     CMD_R_AUX_V_REG_A  |-> <<0, 12, 239, 204>>,
     CMD_R_AUX_V_REG_B  |-> <<0, 14, 114, 154>>,
     CMD_R_AUX_V_REG_C  |-> <<0, 13, 100, 254>>,
     CMD_R_AUX_V_REG_D  |-> <<0, 15, 249, 168>>,
     CMD_R_STATUS_A     |-> <<0, 16, 237, 114>>,
     CMD_R_STATUS_B     |-> <<0, 18, 112, 36>>,
     CMD_R_CONF_A       |-> <<0, 2, 43, 10>>,
     CMD_R_CONF_B       |-> <<0, 38, 44, 200>>,
     CMD_W_CONF_A       |-> <<0, 1, 61, 110>>,
     CMD_W_CONF_B       |-> <<0, 36, 177, 158>>,
     CMD_W_PWM          |-> <<0, 32, 0, 0>>,
     CMD_R_PWM          |-> <<0, 34, 157, 86>>]

\* Poll strategies (type parameter P of LTC681X)
PollMethod == {"NoPolling", "SDOLinePolling"}

----------------------------------------------------------------------------
\* The collaborators: SPI bus (Transfer<u8>) and chip-select pin (OutputPin).
\* Every collaborator call ends "ok" or with one of its own error causes.

BusErrors == {"BusFault", "BusOverrun"}
PinErrors == {"PinFault", "PinBusy"}
BusOutcomes == {"ok"} \cup BusErrors
PinOutcomes == {"ok"} \cup PinErrors

\* One collaborator call as seen on the wires: the operation, its outcome,
\* the bytes sent and received, and the chip-select level once it is over.
Ev(op, out, tx, rx, level) ==
    [op |-> op, out |-> out, tx |-> tx, rx |-> rx, cs |-> level]

\* cs.set_low(): the pin goes low unless the pin driver reports a failure
set_low(m, out) ==
    LET level == IF out = "ok" THEN "low" ELSE m.cs
    IN  [cs |-> level, io |-> Append(m.io, Ev("set_low", out, <<>>, <<>>, level))]

\* cs.set_high(): the pin goes high unless the pin driver reports a failure
set_high(m, out) ==
    LET level == IF out = "ok" THEN "high" ELSE m.cs
    IN  [cs |-> level, io |-> Append(m.io, Ev("set_high", out, <<>>, <<>>, level))]

\* bus.transfer(&mut buf): full duplex, the received bytes replace the
\* buffer; a failed transfer returns no bytes
transfer(m, tx, rx, out) ==
    [cs |-> m.cs,
     io |-> Append(m.io, Ev("transfer", out, tx,
                            IF out = "ok" THEN rx ELSE <<>>, m.cs))]

\* Results of the driver calls: Ok(val) or one of the Error variants.
Ok(val) == [tag |-> "Ok", cause |-> "none", val |-> val]
TransferError(cause) == [tag |-> "TransferError", cause |-> cause, val |-> <<>>]
\* fault: a pin failure mapped to the bus variant
CSPinError_AsTransferError(cause) ==
    [tag |-> "TransferError", cause |-> cause, val |-> <<>>]

CSPinError(cause) == [tag |-> "CSPinError", cause |-> cause, val |-> <<>>]
ChecksumMismatch == [tag |-> "ChecksumMismatch", cause |-> "none", val |-> <<>>]

----------------------------------------------------------------------------
\* Private helpers of LTC681X.

\* fault: the opcode bytes in little-endian order
CommandData_LittleEndian(command) ==
    LET data == <<AsU8(command), AsU8(Shr(command, 8)), 0, 0>>
        pec  == calc(SubSeq(data, 1, 2))
    IN  [data EXCEPT ![3] = pec[1], ![4] = pec[2]]

\* The 4 bytes send_command puts on the bus for a command
CommandData(command) ==
    LET data == <<AsU8(Shr(command, 8)), AsU8(command), 0, 0>>
        pec  == calc(SubSeq(data, 1, 2))
    IN  [data EXCEPT ![3] = pec[1], ![4] = pec[2]]

\* What the chain shifts out while a command is shifted in; never looked at
CommandEcho == <<0, 0, 0, 0>>

\* send_command: attaches the PEC and transfers the frame
send_command(m, command, out) ==
    transfer(m, CommandData(command), CommandEcho, out)

\* fault: the registers decoded big-endian
Registers_BigEndian(result) ==
    <<BitOr(result[2], Shl(result[1], 8, 16)),
      BitOr(result[4], Shl(result[3], 8, 16)),
      BitOr(result[6], Shl(result[5], 8, 16))>>

\* little-endian decoding of the three registers of a frame
Registers(result) ==
    <<BitOr(result[1], Shl(result[2], 8, 16)),
      BitOr(result[3], Shl(result[4], 8, 16)),
      BitOr(result[5], Shl(result[6], 8, 16))>>

\* fault: only the first PEC byte is compared
PecMatches_FirstByteOnly(result) ==
    LET pec == calc(SubSeq(result, 1, 6))
    IN  ~(pec[1] # result[7])

\* the PEC test of read: trailing two bytes against calc of the leading six
PecMatches(result) ==
    LET pec == calc(SubSeq(result, 1, 6))
    IN  ~(pec[1] # result[7] \/ pec[2] # result[8])

\* fault: the frame is decoded without looking at its PEC
read_NoPecCheck(m, rx, out) ==
    LET command == <<255, 255, 255, 255, 255, 255, 255, 255>>
        m1 == transfer(m, command, rx, out)
    IN  IF out # "ok" THEN [m |-> m1, res |-> TransferError(out)]
        ELSE [m |-> m1, res |-> Ok(Registers(rx))]

\* fault: a failed transfer is tried a second time
read_RetryOnce(m, rx, out) ==
    LET command == <<255, 255, 255, 255, 255, 255, 255, 255>>
        m1 == transfer(m, command, rx, out)
        m2 == IF out # "ok" THEN transfer(m1, command, rx, "ok") ELSE m1
    IN  IF ~PecMatches(rx) THEN [m |-> m2, res |-> ChecksumMismatch]
        ELSE [m |-> m2, res |-> Ok(Registers(rx))]

\* read: one 8-byte transfer of 0xff, PEC check, decoding
read(m, rx, out) ==
    LET command == <<255, 255, 255, 255, 255, 255, 255, 255>>
        m1 == transfer(m, command, rx, out)
    IN  IF out # "ok" THEN [m |-> m1, res |-> TransferError(out)]
        ELSE IF ~PecMatches(rx) THEN [m |-> m1, res |-> ChecksumMismatch]
        ELSE [m |-> m1, res |-> Ok(Registers(rx))]

\* fault: every strategy raises chip-select after the command
end_command_AlwaysRelease(method, m, out) ==
    LET m1 == set_high(m, out)
    IN  [m |-> m1, res |-> IF out = "ok" THEN Ok(<<>>) ELSE CSPinError(out)]

\* fault: no strategy raises chip-select after the command
end_command_NeverRelease(method, m, out) == [m |-> m, res |-> Ok(<<>>)]

\* fault: the two strategies exchanged
end_command_Swapped(method, m, out) ==
    IF method = "SDOLinePolling"
    THEN LET m1 == set_high(m, out)
         IN  [m |-> m1, res |-> IF out = "ok" THEN Ok(<<>>) ELSE CSPinError(out)]
    ELSE [m |-> m, res |-> Ok(<<>>)]

\* PollMethod::end_command: NoPolling raises chip-select, SDOLinePolling
\* leaves it alone
end_command(method, m, out) ==
    IF method = "NoPolling"
    THEN LET m1 == set_high(m, out)
         IN  [m |-> m1, res |-> IF out = "ok" THEN Ok(<<>>) ELSE CSPinError(out)]
    ELSE [m |-> m, res |-> Ok(<<>>)]

\* fault: the mode shifted into bits 6..7, over the base opcode
ConvCommand_ModeShift6(mode, cells, dcp) ==
    LET c0 == 608
        c1 == BitOr(c0, Shl(ADCMode[mode], 6, 16))
        c2 == BitOr(c1, CellSelection[cells])
    IN  IF dcp THEN BitOr(c2, 16) ELSE c2

\* the ADCV opcode start_conv_cells composes
ConvCommand(mode, cells, dcp) ==
    LET c0 == 608
        c1 == BitOr(c0, Shl(ADCMode[mode], 7, 16))
        c2 == BitOr(c1, CellSelection[cells])
    IN  IF dcp THEN BitOr(c2, 16) ELSE c2

----------------------------------------------------------------------------
\* The bytes the simulated chain answers with.

\* register triples held by the synthetic devices
Triples == {<<4660, 255, 65280>>, <<65535, 0, 32769>>}

\* the 8-byte frame of a device holding the triple v: three little-endian
\* 16-bit values and their PEC
DeviceFrame(v) ==
    LET payload == <<v[1] % 256, v[1] \div 256, v[2] % 256, v[2] \div 256,
                     v[3] % 256, v[3] \div 256>>
    IN  payload \o calc(payload)

\* frame with bit `bit` of its byte `byte` (1-based) flipped on the wire
FlipBit(frame, byte, bit) == [frame EXCEPT ![byte] = BitXor(@, Pow2(bit))]

\* frames seen by read_cell_voltages: intact ones and ones whose PEC or
\* payload was damaged in transit
Frames ==
    {DeviceFrame(v) : v \in Triples}
        \cup {FlipBit(DeviceFrame(<<65535, 0, 32769>>), 8, 0)}
        \cup {FlipBit(DeviceFrame(<<4660, 255, 65280>>), 2, 7)}

\* bytes sampled on SDO by adc_ready: all-ones when the chain is idle
PollBytes == {255, 0, 127, 254}

----------------------------------------------------------------------------
\* State.

VARIABLES
    cs,           \* level of the chip-select pin: "high" (released) or "low"
    poll_method,  \* type state P of the engine
    phase,        \* conversion state machine of the poll strategy
    call,         \* the last call: operation, arguments, state at entry
    io,           \* the collaborator calls the last call made, in order
    result,       \* what the last call returned
    register_a    \* Configuration::register_a, the 6 bytes of register A

vars == <<cs, poll_method, phase, call, io, result, register_a>>

\* the engine as a call starts: current pin level, nothing done yet
Entry == [cs |-> cs, io |-> <<>>]

Call(op, arg) == [op |-> op, arg |-> arg, cs0 |-> cs, phase0 |-> phase]

\* Idle -> CommandSent -> Polling -> Complete; ReleaseImmediately completes
\* with the command, LineHold completes when a poll reports true
NextPhase(op, method, res) ==
    CASE op = "start_conv_cells" ->
            IF res.tag # "Ok" THEN "Idle"
            ELSE IF method = "NoPolling" THEN "Complete" ELSE "CommandSent"
      [] op = "adc_ready" ->
            IF phase \in {"CommandSent", "Polling"}
            THEN (IF res.tag = "Ok" /\ res.val = TRUE THEN "Complete" ELSE "Polling")
            ELSE phase
      [] op = "read_cell_voltages" -> "Idle"
      [] OTHER -> phase

\* a call returns: the pin is where the call left it
Return(op, arg, m, res) ==
    /\ cs' = m.cs
    /\ io' = m.io
    /\ result' = res
    /\ call' = Call(op, arg)
    /\ phase' = NextPhase(op, poll_method, res)
    /\ poll_method' = poll_method
    /\ register_a' = register_a

\* Configuration::default(): GPIO pull-downs off, everything else zero
DefaultConfiguration == <<248, 0, 0, 0, 0, 0>>

\* LTC681X::new: NoPolling engine; chip-select idles released
Init ==
    /\ cs = "high"
    /\ poll_method = "NoPolling"
    /\ phase = "Idle"
    /\ call = [op |-> "new", arg |-> <<>>, cs0 |-> "high", phase0 |-> "Idle"]
    /\ io = <<>>
    /\ result = Ok(<<>>)
    /\ register_a = DefaultConfiguration

----------------------------------------------------------------------------
\* Public operations.

\* (a value bound with \E x \in {e} is e, computed once)
start_conv_cells(mode, cells, dcp) ==
    \E lowOut \in PinOutcomes, arg \in {<<mode, cells, dcp>>} :
    \E m1 \in {set_low(Entry, lowOut)} :
        IF lowOut # "ok"
        THEN Return("start_conv_cells", arg, m1, CSPinError(lowOut))
        ELSE \E busOut \in BusOutcomes :
             \E m2 \in {send_command(m1, ConvCommand(mode, cells, dcp), busOut)} :
                IF busOut # "ok"
                THEN Return("start_conv_cells", arg, m2, TransferError(busOut))
                ELSE \E endOut \in (IF poll_method = "NoPolling"
                                    THEN PinOutcomes ELSE {"ok"}) :
                     \E e \in {end_command(poll_method, m2, endOut)} :
                        Return("start_conv_cells", arg, e.m, e.res)

\* let mut result = [[0, 0, 0]; L]
EmptyResult == [i \in 1..L |-> <<0, 0, 0>>]

\* fault: the devices are stored from the far end of the array
Store_Reversed(acc, i, registers) == [acc EXCEPT ![L - i] = registers]

\* result[i] = registers (i counts from 0)
Store(acc, i, registers) == [acc EXCEPT ![i + 1] = registers]

\* the loop over the L devices and the closing set_high
RECURSIVE read_devices(_, _, _, _)
read_devices(register, i, m, acc) ==
    IF i < L
    THEN \E rx \in Frames, out \in BusOutcomes :
         \E r \in {read(m, rx, out)} :
            IF r.res.tag # "Ok"
            THEN Return("read_cell_voltages", <<register>>, r.m, r.res)
            ELSE \E acc1 \in {Store(acc, i, r.res.val)} :
                    read_devices(register, i + 1, r.m, acc1)
    ELSE \E highOut \in PinOutcomes :
         \E m1 \in {set_high(m, highOut)} :
            Return("read_cell_voltages", <<register>>, m1,
                   IF highOut # "ok" THEN CSPinError(highOut) ELSE Ok(acc))

read_cell_voltages(register) ==
    \E lowOut \in PinOutcomes :
    \E m1 \in {set_low(Entry, lowOut)} :
        IF lowOut # "ok"
        THEN Return("read_cell_voltages", <<register>>, m1, CSPinError(lowOut))
        ELSE \E busOut \in BusOutcomes :
             \E m2 \in {send_command(m1, CellVoltageRegister[register], busOut)} :
                IF busOut # "ok"
                THEN Return("read_cell_voltages", <<register>>, m2,
                            TransferError(busOut))
                ELSE read_devices(register, 0, m2, EmptyResult)

\* fault: the switch flips the strategy back and forth
enable_sdo_polling_Toggle ==
    /\ poll_method' = (IF poll_method = "NoPolling"
                       THEN "SDOLinePolling" ELSE "NoPolling")
    /\ call' = Call("enable_sdo_polling", <<>>)
    /\ io' = <<>>
    /\ result' = Ok(<<>>)
    /\ UNCHANGED <<cs, phase, register_a>>

\* fault: the switch releases chip-select
enable_sdo_polling_Release ==
    /\ poll_method' = "SDOLinePolling"
    /\ call' = Call("enable_sdo_polling", <<>>)
    /\ io' = set_high(Entry, "ok").io
    /\ cs' = "high"
    /\ result' = Ok(<<>>)
    /\ UNCHANGED <<phase, register_a>>

\* consumes the engine and yields the SDOLinePolling one; no I/O
enable_sdo_polling ==
    /\ poll_method' = "SDOLinePolling"
    /\ call' = Call("enable_sdo_polling", <<>>)
    /\ io' = <<>>
    /\ result' = Ok(<<>>)
    /\ UNCHANGED <<cs, phase, register_a>>

\* fault: any non-zero sample counts as SDO high
SdoHigh_NonZero(received) == received[1] # 0

\* result[0] == 0xff: SDO is high, the chain has finished converting
SdoHigh(received) == received[1] = 255

\* only an SDOLinePolling engine has adc_ready
adc_ready ==
    /\ poll_method = "SDOLinePolling"
    /\ \E rx \in PollBytes, out \in BusOutcomes :
       \E m1 \in {transfer(Entry, <<255>>, <<rx>>, out)} :
            IF out # "ok"
            THEN Return("adc_ready", <<>>, m1, TransferError(out))
            ELSE IF SdoHigh(<<rx>>)
            THEN \E highOut \in PinOutcomes :
                 \E m2 \in {set_high(m1, highOut)} :
                    Return("adc_ready", <<>>, m2,
                           IF highOut # "ok" THEN CSPinError(highOut)
                           ELSE Ok(TRUE))
            ELSE Return("adc_ready", <<>>, m1, Ok(FALSE))

\* arguments the caller passes in the engine runs
ConvModes == {"Normal", "Other"}
ConvCells == {"All", "Group6"}
ReadRegisters == {"RegisterA", "RegisterE"}

StartConvCells ==
    \E mode \in ConvModes, cells \in ConvCells, dcp \in BOOLEAN :
        start_conv_cells(mode, cells, dcp)

ReadCellVoltages ==
    \E register \in ReadRegisters : read_cell_voltages(register)

EnableSdoPolling == enable_sdo_polling

AdcReady == adc_ready

Next == StartConvCells \/ ReadCellVoltages \/ EnableSdoPolling \/ AdcReady

Spec == Init /\ [][Next]_vars

----------------------------------------------------------------------------
\* The framer and the frame decoder on their own: send_command and read
\* applied to opcodes and to device frames, intact and damaged.

\* 16-bit values the synthetic device holds
CodecValues == {0, 255, 256, 4660, 65535}

\* opcodes: every 11-bit command code and some values using the upper bits
Opcodes == (0..2047) \cup {4660, 32768, 43981, 65280, 65535}

\* damage done to a frame on the wire: none, or one flipped bit <<byte, bit>>
Damages == {<<0, 0>>} \cup ((1..8) \X (0..7))

OnWire(frame, damage) ==
    IF damage[1] = 0 THEN frame ELSE FlipBit(frame, damage[1], damage[2])

\* each run applies one helper once, to a freshly constructed engine
ReadFrame ==
    /\ call.op = "new"
    /\ \E v \in CodecValues \X CodecValues \X CodecValues, damage \in Damages,
          out \in BusOutcomes :
       \E r \in {read(Entry, OnWire(DeviceFrame(v), damage), out)} :
          Return("read", <<v, damage>>, r.m, r.res)

SendCommand ==
    /\ call.op = "new"
    /\ \E command \in Opcodes, out \in BusOutcomes :
       \E m1 \in {send_command(Entry, command, out)} :
          Return("send_command", <<command>>, m1,
                 IF out # "ok" THEN TransferError(out) ELSE Ok(<<>>))

\* a conversion started with every mode, cell selection and discharge flag
StartConversion ==
    /\ call.op = "new"
    /\ \E mode \in DOMAIN ADCMode, cells \in DOMAIN CellSelection,
          dcp \in BOOLEAN :
            start_conv_cells(mode, cells, dcp)

\* every cell voltage register group read from the chain
ReadRegisterGroup ==
    /\ call.op = "new"
    /\ \E register \in DOMAIN CellVoltageRegister :
            read_cell_voltages(register)

NextCodec == ReadFrame \/ SendCommand \/ StartConversion \/ ReadRegisterGroup

SpecCodec == Init /\ [][NextCodec]_vars

----------------------------------------------------------------------------
\* Configuration of register A (src/src/ltc6810/config.rs).  register_a[k]
\* of the source is register_a[k + 1] here.

VoltageOutOfRangeError ==
    [tag |-> "VoltageOutOfRangeError", cause |-> "none", val |-> <<>>]

\* `x as u16`
AsU16(x) == x % 65536

\* fault: the under-voltage code without its offset of one
UvValue_NoOffset(voltage) == AsU16(voltage \div 1600)

\* ((voltage / 1600) - 1) as u16
UvValue(voltage) == AsU16((voltage \div 1600) - 1)

\* (voltage / 1600) as u16
OvValue(voltage) == AsU16(voltage \div 1600)

\* set_uv_comp_voltage on the register bytes reg
set_uv_comp_voltage(reg, voltage) ==
    IF voltage = 0
    THEN [reg |-> [reg EXCEPT ![2] = 0, ![3] = BitAnd(@, 240)],
          res |-> Ok(<<>>)]
    ELSE IF ~(voltage >= 3200 /\ voltage <= 6553600)
    THEN [reg |-> reg, res |-> VoltageOutOfRangeError]
    ELSE LET value == UvValue(voltage)
         IN  [reg |-> [reg EXCEPT
                          ![2] = AsU8(value),
                          ![3] = BitOr(BitAnd(@, 240), AsU8(Shr(value, 8)))],
              res |-> Ok(<<>>)]

\* set_ov_comp_voltage on the register bytes reg
set_ov_comp_voltage(reg, voltage) ==
    IF voltage = 0
    THEN [reg |-> [reg EXCEPT ![3] = BitAnd(@, 15), ![4] = 0],
          res |-> Ok(<<>>)]
    ELSE IF ~(voltage >= 1600 /\ voltage <= 6552000)
    THEN [reg |-> reg, res |-> VoltageOutOfRangeError]
    ELSE LET value == OvValue(voltage)
         IN  [reg |-> [reg EXCEPT
                          ![4] = AsU8(Shr(value, 4)),
                          ![3] = BitOr(BitAnd(@, 15), AsU8(Shl(value, 4, 16)))],
              res |-> Ok(<<>>)]

\* discharge_cell(Cell3), enable_discharge_timer, enable_discharge_monitor
discharge_cell_3(reg) == [reg EXCEPT ![5] = BitOr(@, 4)]
enable_discharge_timer(reg) == [reg EXCEPT ![1] = BitOr(@, 2)]
enable_discharge_monitor(reg) == [reg EXCEPT ![6] = BitOr(@, 1)]

\* voltages in uV handed to the setters: the sentinel, both range ends and
\* their neighbours, codes that fill the high and the low bits
Voltages ==
    {0, 1, 1599, 1600, 3199, 3200, 411200, 6552000, 6553600, 6553601,
     2147483647}

\* a call on the Configuration; the register bytes at entry are kept with
\* the arguments
ConfigReturn(op, arg, reg, res) ==
    /\ register_a' = reg
    /\ result' = res
    /\ call' = Call(op, <<arg, register_a>>)
    /\ UNCHANGED <<cs, poll_method, phase, io>>

SetUvCompVoltage ==
    \E voltage \in Voltages :
    \E r \in {set_uv_comp_voltage(register_a, voltage)} :
        ConfigReturn("set_uv_comp_voltage", voltage, r.reg, r.res)

SetOvCompVoltage ==
    \E voltage \in Voltages :
    \E r \in {set_ov_comp_voltage(register_a, voltage)} :
        ConfigReturn("set_ov_comp_voltage", voltage, r.reg, r.res)

DischargeCell ==
    ConfigReturn("discharge_cell", 3, discharge_cell_3(register_a), Ok(<<>>))

EnableDischargeTimer ==
    ConfigReturn("enable_discharge_timer", 0,
                 enable_discharge_timer(register_a), Ok(<<>>))

EnableDischargeMonitor ==
    ConfigReturn("enable_discharge_monitor", 0,
                 enable_discharge_monitor(register_a), Ok(<<>>))

NextConfig ==
    \/ SetUvCompVoltage
    \/ SetOvCompVoltage
    \/ DischargeCell
    \/ EnableDischargeTimer
    \/ EnableDischargeMonitor

SpecConfig == Init /\ [][NextConfig]_vars

----------------------------------------------------------------------------
\* Properties.  They read the record of the last call: what it was asked
\* (call), what it did to the collaborators (io), what it returned (result).

IsTransfer(e) == e.op = "transfer"
IsSetHigh(e) == e.op = "set_high"

\* the per-device transfers, the bus transfers and the set_high calls of the
\* last call
DeviceReads == SelectSeq(io, LAMBDA e : IsTransfer(e) /\ Len(e.tx) = 8)
BusTransfers == SelectSeq(io, IsTransfer)
HighCalls == SelectSeq(io, IsSetHigh)

\* the trailing two bytes of a received frame are the PEC of its leading six
ValidPec(rx) == <<rx[7], rx[8]>> = calc(SubSeq(rx, 1, 6))

\* the k-th 16-bit value of a received frame, low byte first
LeValue(rx, k) == rx[2 * k - 1] + 256 * rx[2 * k]

ReturnedTrue == result.tag = "Ok" /\ result.val = TRUE
ReturnedFalse == result.tag = "Ok" /\ result.val = FALSE

\* C1: read_cell_voltages leaves chip-select released (high) when it
\* returns: on success, when the command transfer fails, when a per-device
\* transfer fails and when a device's checksum does not match.
C1_ReadReleasesChipSelect ==
    (/\ call.op = "read_cell_voltages"
     /\ result.tag \in {"Ok", "TransferError", "ChecksumMismatch"})
        => cs = "high"

\* C2: under NoPolling, a start_conv_cells whose command transfer fails
\* returns TransferError with chip-select released (high).
C2_StartConvFailureReleasesChipSelect ==
    (/\ call.op = "start_conv_cells"
     /\ poll_method = "NoPolling"
     /\ result.tag = "TransferError")
        => cs = "high"

\* C3: read_cell_voltages never returns partial data: Ok carries L triples
\* and only when all L device frames passed the PEC check; the first frame
\* whose PEC does not match ends the call with ChecksumMismatch, and nothing
\* is transferred for the devices after it.
C3_NoPartialData ==
    call.op = "read_cell_voltages" =>
        /\ Len(DeviceReads) <= L
        /\ result.tag = "Ok" =>
              /\ Len(result.val) = L
              /\ Len(DeviceReads) = L
              /\ \A i \in 1..L :
                    DeviceReads[i].out = "ok" /\ ValidPec(DeviceReads[i].rx)
        /\ \A i \in 1..Len(DeviceReads) :
              (DeviceReads[i].out = "ok" /\ ~ValidPec(DeviceReads[i].rx)) =>
                  /\ result = ChecksumMismatch
                  /\ Len(DeviceReads) = i
                  /\ io[Len(io)] = DeviceReads[i]

\* the first device's frame fails the check and the rest of the chain is
\* not read
C3_Witness ==
    /\ call.op = "read_cell_voltages"
    /\ result = ChecksumMismatch
    /\ Len(DeviceReads) = 1
    /\ L > 1

\* C4, as claimed, for a poll of a conversion in progress: adc_ready sends
\* the single byte 0xFF, returns true iff the received byte is 0xFF, then
\* with chip-select released; for any other received byte it returns false,
\* touches no pin and leaves chip-select asserted.
C4_AdcReadyAsClaimed ==
    (/\ call.op = "adc_ready"
     /\ call.phase0 \in {"CommandSent", "Polling"}
     /\ io[1].out = "ok") =>
        /\ Len(BusTransfers) = 1
        /\ io[1].tx = <<255>>
        /\ ReturnedTrue <=> (io[1].rx = <<255>>)
        /\ io[1].rx = <<255>> => cs = "high"
        /\ io[1].rx # <<255>> =>
              /\ ReturnedFalse
              /\ Len(io) = 1
              /\ cs = "low"

\* C4, amended: adc_ready sends the single byte 0xFF; it returns true iff
\* the received byte is 0xFF and the set_high it then issues succeeds, then
\* with chip-select released (a failed set_high is returned as CSPinError);
\* for any other received byte it returns false, touches no pin and leaves
\* chip-select at the level it had when the call started.
C4_AdcReady ==
    call.op = "adc_ready" =>
        /\ Len(BusTransfers) = 1
        /\ IsTransfer(io[1]) /\ io[1].tx = <<255>>
        /\ io[1].out = "ok" =>
              /\ ReturnedTrue <=>
                    (/\ io[1].rx = <<255>>
                     /\ IsSetHigh(io[Len(io)]) /\ io[Len(io)].out = "ok")
              /\ ReturnedTrue => cs = "high"
              /\ io[1].rx = <<255>> =>
                    /\ Len(io) = 2 /\ IsSetHigh(io[2])
                    /\ io[2].out # "ok" => result = CSPinError(io[2].out)
              /\ io[1].rx # <<255>> =>
                    /\ ReturnedFalse
                    /\ Len(io) = 1
                    /\ cs = call.cs0

\* a poll of an asserted chain sees all-ones, releases and returns true
C4_Witness ==
    /\ call.op = "adc_ready"
    /\ call.cs0 = "low"
    /\ io[1].rx = <<255>>
    /\ ReturnedTrue
    /\ cs = "high"

InPollSequence(p) == p \in {"CommandSent", "Polling"}

\* C5, as claimed: under SDOLinePolling, from a successful start_conv_cells
\* to the first adc_ready returning true chip-select stays asserted, the
\* polls send no 4-byte command frame, the sequence runs Idle -> CommandSent
\* -> Polling -> Complete, and chip-select is released exactly when the
\* all-ones sample is observed.
C5_LineHoldAsClaimed ==
    /\ InPollSequence(phase) => (cs = "low" /\ poll_method = "SDOLinePolling")
    /\ (/\ call.op = "start_conv_cells"
        /\ poll_method = "SDOLinePolling"
        /\ result.tag = "Ok") => phase = "CommandSent"
    /\ (call.op = "adc_ready" /\ InPollSequence(call.phase0)) =>
          /\ call.cs0 = "low"
          /\ \A k \in 1..Len(io) : IsTransfer(io[k]) => Len(io[k].tx) = 1
          /\ (cs = "high") <=> (io[1].out = "ok" /\ io[1].rx = <<255>>)
          /\ phase = (IF cs = "high" THEN "Complete" ELSE "Polling")

\* C5, amended: as claimed, but chip-select is released exactly by the
\* adc_ready call that returns true, that is when the all-ones sample is
\* observed and the set_high issued on it succeeds; when that set_high
\* fails the call returns CSPinError and chip-select stays asserted.
C5_LineHold ==
    /\ InPollSequence(phase) => (cs = "low" /\ poll_method = "SDOLinePolling")
    /\ (/\ call.op = "start_conv_cells"
        /\ poll_method = "SDOLinePolling"
        /\ result.tag = "Ok") => phase = "CommandSent"
    /\ (call.op = "adc_ready" /\ InPollSequence(call.phase0)) =>
          /\ call.cs0 = "low"
          /\ \A k \in 1..Len(io) : IsTransfer(io[k]) => Len(io[k].tx) = 1
          /\ (cs = "high") <=> ReturnedTrue
          /\ ReturnedTrue => (io[1].out = "ok" /\ io[1].rx = <<255>>)
          /\ (io[1].out = "ok" /\ io[1].rx = <<255>> /\ ~ReturnedTrue) =>
                (result.tag = "CSPinError" /\ cs = "low")
          /\ phase = (IF cs = "high" THEN "Complete" ELSE "Polling")

\* a poll sequence that was still busy at least once reaches Complete
C5_Witness ==
    /\ call.op = "adc_ready"
    /\ call.phase0 = "Polling"
    /\ phase = "Complete"
    /\ cs = "high"

\* C6: a completed transaction releases chip-select once, after its last bus
\* transfer: a successful read_cell_voltages and a successful NoPolling
\* start_conv_cells call set_high exactly once, as their last step; a
\* successful SDOLinePolling start_conv_cells never calls it, and the
\* adc_ready call that returns true calls it once, as its last step.
C6_ReleasedOnce ==
    /\ (call.op = "read_cell_voltages" /\ result.tag = "Ok") =>
          (Len(HighCalls) = 1 /\ IsSetHigh(io[Len(io)]))
    /\ (call.op = "start_conv_cells" /\ result.tag = "Ok") =>
          IF poll_method = "NoPolling"
          THEN Len(HighCalls) = 1 /\ IsSetHigh(io[Len(io)])
          ELSE Len(HighCalls) = 0
    /\ (call.op = "adc_ready" /\ result.tag = "Ok") =>
          IF result.val
          THEN Len(HighCalls) = 1 /\ IsSetHigh(io[Len(io)])
          ELSE Len(HighCalls) = 0

\* the poll that completes a conversion started under SDOLinePolling
C6_Witness ==
    /\ call.op = "adc_ready"
    /\ call.phase0 = "CommandSent"
    /\ ReturnedTrue
    /\ Len(HighCalls) = 1

\* C7: a successful read_cell_voltages returns exactly L triples, the i-th
\* being the decoding of the i-th 8-byte transfer after the command frame.
C7_ChainOrder ==
    (call.op = "read_cell_voltages" /\ result.tag = "Ok") =>
        /\ Len(result.val) = L
        /\ Len(io) = L + 3
        /\ \A i \in 1..L :
              /\ IsTransfer(io[i + 2]) /\ Len(io[i + 2].tx) = 8
              /\ result.val[i] = <<LeValue(io[i + 2].rx, 1),
                                   LeValue(io[i + 2].rx, 2),
                                   LeValue(io[i + 2].rx, 3)>>

\* a chain of more than one device whose first and last triples differ
C7_Witness ==
    /\ call.op = "read_cell_voltages"
    /\ result.tag = "Ok"
    /\ L > 1
    /\ result.val[1] # result.val[L]

\* C8: a frame carrying the little-endian bytes of v0, v1, v2 and their PEC
\* is accepted by read and decoded to exactly <<v0, v1, v2>>.
C8_RoundTrip ==
    (call.op = "read" /\ call.arg[2] = <<0, 0>> /\ io[1].out = "ok") =>
        /\ \A k \in 1..3 : LeValue(io[1].rx, k) = call.arg[1][k]
        /\ ValidPec(io[1].rx)
        /\ result.tag = "Ok"
        /\ result.val = call.arg[1]

\* an intact frame whose values have distinct high and low bytes
C8_Witness ==
    /\ call.op = "read"
    /\ call.arg = <<(<<4660, 255, 256>>), (<<0, 0>>)>>
    /\ result.tag = "Ok"

\* C9: read accepts a frame iff its trailing two bytes are the PEC of its
\* leading six, and returns ChecksumMismatch otherwise; a valid frame with
\* any one of its 48 payload bits flipped is rejected.
C9_AcceptedIffPecMatches ==
    (call.op = "read" /\ io[1].out = "ok") =>
        /\ (result.tag = "Ok") <=> ValidPec(io[1].rx)
        /\ result.tag # "Ok" => result = ChecksumMismatch
        /\ call.arg[2][1] \in 1..6 => result = ChecksumMismatch

\* a frame with one payload bit flipped is rejected
C9_Witness ==
    /\ call.op = "read"
    /\ call.arg[2] = <<3, 5>>
    /\ result = ChecksumMismatch

\* C10: send_command transmits the opcode high byte first, followed by the
\* PEC of these two bytes; for opcode 0x0004 that is 00 04 07 C2.
C10_CommandFrame ==
    call.op = "send_command" =>
        LET command == call.arg[1]
            head == <<command \div 256, command % 256>>
        IN  /\ Len(io) = 1 /\ IsTransfer(io[1])
            /\ io[1].tx = head \o calc(head)
            /\ command = 4 => io[1].tx = <<0, 4, 7, 194>>

\* the reference frame of the RDCVA command is transmitted
C10_Witness ==
    /\ call.op = "send_command"
    /\ call.arg[1] = 4
    /\ io[1].tx = <<0, 4, 7, 194>>
    /\ result.tag = "Ok"

IsSetLow(e) == e.op = "set_low"

\* the last call got its 4-byte command frame through the bus
CommandSent ==
    /\ call.op \in {"start_conv_cells", "read_cell_voltages"}
    /\ Len(io) >= 2
    /\ IsTransfer(io[2]) /\ Len(io[2].tx) = 4 /\ io[2].out = "ok"

\* C11, as claimed: once start_conv_cells has transmitted the command frame,
\* the strategy decides the chip-select level at return: released under
\* NoPolling, still asserted and no set_high issued under SDOLinePolling.
C11_StrategyDecidesAsClaimed ==
    (call.op = "start_conv_cells" /\ CommandSent) =>
        IF poll_method = "NoPolling"
        THEN cs = "high"
        ELSE cs = "low" /\ Len(HighCalls) = 0

\* C11, amended: under NoPolling exactly one set_high is issued right after
\* the command frame, and chip-select is released at return unless that
\* set_high fails, in which case the call returns CSPinError with its cause;
\* under SDOLinePolling chip-select is still asserted, no set_high was
\* issued and the call returns Ok.
C11_StrategyDecides ==
    (call.op = "start_conv_cells" /\ CommandSent) =>
        IF poll_method = "NoPolling"
        THEN /\ Len(io) = 3 /\ IsSetHigh(io[3])
             /\ (cs = "high") <=> (io[3].out = "ok")
             /\ (result.tag = "Ok") <=> (io[3].out = "ok")
             /\ io[3].out # "ok" =>
                   (/\ result.tag = "CSPinError"
                    /\ result.cause = io[3].out
                    /\ cs = "low")
        ELSE /\ Len(io) = 2
             /\ cs = "low"
             /\ Len(HighCalls) = 0
             /\ result.tag = "Ok"

\* a conversion started on an SDOLinePolling engine keeps the chain selected
C11_Witness ==
    /\ call.op = "start_conv_cells"
    /\ poll_method = "SDOLinePolling"
    /\ call.cs0 = "high"
    /\ CommandSent
    /\ cs = "low"

\* C13: one strategy is active at a time; an engine is built with NoPolling,
\* the only change of strategy is enable_sdo_polling to SDOLinePolling, an
\* SDOLinePolling engine never becomes a NoPolling one again, and adc_ready
\* is only ever called on an SDOLinePolling engine.
C13_StrategySwitchIrreversible ==
    /\ [](/\ poll_method \in PollMethod
          /\ call.op = "new" => poll_method = "NoPolling"
          /\ call.op = "adc_ready" => poll_method = "SDOLinePolling")
    /\ [][/\ poll_method' # poll_method =>
                (/\ poll_method = "NoPolling"
                 /\ poll_method' = "SDOLinePolling"
                 /\ call'.op = "enable_sdo_polling")
          /\ poll_method = "SDOLinePolling" => poll_method' = "SDOLinePolling"
          /\ call'.op = "adc_ready" => poll_method = "SDOLinePolling"]_vars

\* an engine that was switched goes on being used as an SDOLinePolling one
C13_Witness ==
    /\ poll_method = "SDOLinePolling"
    /\ call.op = "read_cell_voltages"
    /\ result.tag = "Ok"

\* C14: a failed bus transfer ends the call: the call returns TransferError
\* with the cause the bus gave, and makes no further bus transfer; every
\* TransferError returned comes from the last transfer of the call.
C14_BusFailureTerminal ==
    call.op \in {"start_conv_cells", "read_cell_voltages", "adc_ready"} =>
        /\ \A k \in 1..Len(io) :
              (IsTransfer(io[k]) /\ io[k].out # "ok") =>
                  /\ result.tag = "TransferError"
                  /\ result.cause = io[k].out
                  /\ result.cause \in BusErrors
                  /\ \A j \in (k + 1)..Len(io) : ~IsTransfer(io[j])
        /\ result.tag = "TransferError" =>
              \E k \in 1..Len(io) : IsTransfer(io[k]) /\ io[k].out # "ok"

\* the transfer for the first device fails with the second bus cause
C14_Witness ==
    /\ call.op = "read_cell_voltages"
    /\ result.tag = "TransferError"
    /\ result.cause = "BusOverrun"
    /\ Len(DeviceReads) = 1

\* C15: start_conv_cells and read_cell_voltages begin with set_low; when it
\* fails they return CSPinError and touch neither the bus nor the pin again;
\* start_conv_cells returns Ok only if set_low, the command transfer and the
\* strategy's end_command all succeeded, and a failed set_high of
\* end_command is returned as CSPinError.
C15_AssertFirst ==
    call.op \in {"start_conv_cells", "read_cell_voltages"} =>
        /\ Len(io) >= 1 /\ IsSetLow(io[1])
        /\ io[1].out # "ok" =>
              /\ Len(io) = 1
              /\ result.tag = "CSPinError"
              /\ result.cause = io[1].out
        /\ (call.op = "start_conv_cells" /\ result.tag = "Ok") =>
              /\ \A k \in 1..Len(io) : io[k].out = "ok"
              /\ Len(io) >= 2 /\ IsTransfer(io[2]) /\ Len(io[2].tx) = 4
              /\ poll_method = "NoPolling" => (Len(io) = 3 /\ IsSetHigh(io[3]))
        /\ (/\ call.op = "start_conv_cells"
            /\ Len(io) = 3 /\ IsSetHigh(io[3]) /\ io[3].out # "ok") =>
              /\ result.tag = "CSPinError"
              /\ result.cause = io[3].out

\* set_low fails and nothing else is attempted
C15_Witness ==
    /\ call.op = "start_conv_cells"
    /\ Len(io) = 1
    /\ io[1].out = "PinBusy"
    /\ result.tag = "CSPinError"

\* C18: every bus transfer is made while chip-select is asserted (low),
\* whatever the sequence of operations, adc_ready before any conversion or
\* after it reported true included.
C18_TransfersWhileAsserted ==
    \A k \in 1..Len(io) : IsTransfer(io[k]) => io[k].cs = "low"

\* C19, for a command issued while an SDOLinePolling poll sequence is in
\* progress: chip-select was released after the conversion command and
\* asserted again before this command frame is transmitted.
C19_CommandOpensOwnWindow ==
    (CommandSent /\ InPollSequence(call.phase0)) => call.cs0 = "high"

\* C20: enable_sdo_polling does no I/O: no bus transfer, no pin operation;
\* chip-select and the conversion in progress are as the consumed engine
\* left them, only the strategy is SDOLinePolling now.
C20_EnableSdoPollingNoIo ==
    call.op = "enable_sdo_polling" =>
        /\ io = <<>>
        /\ cs = call.cs0
        /\ phase = call.phase0
        /\ poll_method = "SDOLinePolling"
        /\ result.tag = "Ok"

\* the switch made while chip-select is asserted leaves it asserted
C20_Witness ==
    /\ call.op = "enable_sdo_polling"
    /\ call.cs0 = "low"
    /\ cs = "low"

\* the 16-bit opcode at the head of a transmitted command frame
OpcodeOf(tx) == tx[1] * 256 + tx[2]

\* C12: the opcode start_conv_cells composes is 0x0260 | (mode << 7) |
\* (dcp << 4) | cells; base bits {5,6,9}, mode bits {7,8}, dcp bit {4} and
\* cell bits {0,1,2} do not overlap, so the OR is the arithmetic sum and
\* mode, cells and dcp can each be read back from the opcode.
C12_ConvOpcode ==
    (call.op = "start_conv_cells" /\ Len(io) >= 2) =>
        LET opcode == OpcodeOf(io[2].tx)
            mode   == ADCMode[call.arg[1]]
            cells  == CellSelection[call.arg[2]]
            dcp    == IF call.arg[3] THEN 1 ELSE 0
        IN  /\ mode \in 0..3 /\ cells \in 0..7
            /\ opcode = 608 + 128 * mode + 16 * dcp + cells
            /\ (opcode \div 128) % 4 = mode
            /\ (opcode \div 16) % 2 = dcp
            /\ opcode % 8 = cells
            /\ (opcode \div 32) % 4 = 3
            /\ (opcode \div 8) % 2 = 0
            /\ opcode \div 512 = 1

\* all three fields at work: Filtered, Group6, discharge permitted: 0x03F6
C12_Witness ==
    /\ call.op = "start_conv_cells"
    /\ call.arg = <<"Filtered", "Group6", TRUE>>
    /\ Len(io) >= 2
    /\ OpcodeOf(io[2].tx) = 1014

\* the precomputed command of each cell voltage register group
CellVoltageCommand ==
    [RegisterA |-> "CMD_R_CELL_V_REG_A", RegisterB |-> "CMD_R_CELL_V_REG_B",
     RegisterC |-> "CMD_R_CELL_V_REG_C", RegisterD |-> "CMD_R_CELL_V_REG_D",
     RegisterE |-> "CMD_R_CELL_V_REG_E", RegisterF |-> "CMD_R_CELL_V_REG_F"]

\* bytes 2..3 of every table entry are the PEC of its bytes 0..1
CommandsAreFrames ==
    \A name \in DOMAIN Commands :
        /\ Len(Commands[name]) = 4
        /\ SubSeq(Commands[name], 3, 4) = calc(SubSeq(Commands[name], 1, 2))

\* C16: every precomputed command is a valid command frame, CMD_W_PWM =
\* 00 20 00 00 included: its last two bytes are the PEC of its first two,
\* so send_command of its opcode transmits exactly it; and the opcode
\* read_cell_voltages transmits for register A..F is the opcode of the
\* matching CMD_R_CELL_V_REG_* entry.
C16_CommandTable ==
    /\ CommandsAreFrames
    /\ Commands["CMD_W_PWM"] = <<0, 32, 0, 0>>
    /\ call.op = "send_command" =>
          \A name \in DOMAIN Commands :
              OpcodeOf(Commands[name]) = call.arg[1] =>
                  io[1].tx = Commands[name]
    /\ (call.op = "read_cell_voltages" /\ Len(io) >= 2) =>
          LET entry == Commands[CellVoltageCommand[call.arg[1]]]
          IN  /\ CellVoltageRegister[call.arg[1]] = OpcodeOf(entry)
              /\ OpcodeOf(io[2].tx) = OpcodeOf(entry)
              /\ io[2].tx = entry

\* register group E, whose opcode (9) comes before that of D (10)
C16_Witness ==
    /\ call.op = "read_cell_voltages"
    /\ call.arg = <<"RegisterE">>
    /\ Len(io) >= 2
    /\ io[2].tx = <<0, 9, 213, 96>>

\* the 12-bit under-voltage code: byte 1 and the low nibble of byte 2
UvField(reg) == reg[2] + 256 * (reg[3] % 16)

\* the 12-bit over-voltage code: the high nibble of byte 2 and byte 3
OvField(reg) == (reg[3] \div 16) + 16 * reg[4]

\* C17: set_uv_comp_voltage(v) and set_ov_comp_voltage(v) write the all-zero
\* sentinel into their own 12-bit field for v = 0; return
\* VoltageOutOfRangeError and leave the 6 bytes alone for a non-zero v
\* outside 3200..6553600 (UV) or 1600..6552000 (OV); otherwise store
\* v/1600 - 1 (UV) or v/1600 (OV), a code in 1..4095; and never change the
\* other threshold's 12 bits nor bytes 0, 4 and 5.
C17_ThresholdEncoders ==
    call.op \in {"set_uv_comp_voltage", "set_ov_comp_voltage"} =>
        LET v    == call.arg[1]
            old  == call.arg[2]
            uv   == call.op = "set_uv_comp_voltage"
            lo   == IF uv THEN 3200 ELSE 1600
            hi   == IF uv THEN 6553600 ELSE 6552000
            own  == IF uv THEN UvField(register_a) ELSE OvField(register_a)
            code == IF uv THEN v \div 1600 - 1 ELSE v \div 1600
        IN  /\ Len(register_a) = 6
            /\ \A k \in 1..6 : register_a[k] \in 0..255
            /\ v = 0 => (result.tag = "Ok" /\ own = 0)
            /\ (v # 0 /\ (v < lo \/ v > hi)) =>
                  (result.tag = "VoltageOutOfRangeError" /\ register_a = old)
            /\ (v >= lo /\ v <= hi) =>
                  (result.tag = "Ok" /\ own = code /\ own \in 1..4095)
            /\ uv => OvField(register_a) = OvField(old)
            /\ ~uv => UvField(register_a) = UvField(old)
            /\ register_a[1] = old[1]
            /\ register_a[5] = old[5]
            /\ register_a[6] = old[6]

\* the largest under-voltage code written next to a full over-voltage field
\* and non-zero bytes 4 and 5
C17_Witness ==
    /\ call.op = "set_uv_comp_voltage"
    /\ call.arg[1] = 6553600
    /\ UvField(register_a) = 4095
    /\ OvField(register_a) = 4095
    /\ register_a[5] # 0
    /\ register_a[6] # 0

====
